---------------------------- MODULE Spec2Model ----------------------------
(***************************************************************************)
(* Model of the Remo WhatsApp reminder bot:                                *)
(*   - the admin store             (src/src/utils/admin.js)                *)
(*   - the connection manager, the command dispatcher, the handlers and    *)
(*     the natural-language time parser (src/unnamed/part_001, bot.js)     *)
(*   - the start-up script and its keep-alive timer (src/unnamed/part_000) *)
(* Texts and JIDs are strings; the JavaScript string operations and the    *)
(* regular expressions of the source are written out as operators.         *)
(***************************************************************************)
EXTENDS Integers, Sequences, FiniteSets, TLC

(***************************************************************************)
(* JavaScript string primitives.  Positions are 1-based here; the          *)
(* operators named Js... return what the JavaScript method returns         *)
(* (0-based indices, -1 for "not found").                                  *)
(***************************************************************************)
Ch(s, i) == IF i >= 1 /\ i <= Len(s) THEN SubSeq(s, i, i) ELSE ""

UpperLetters == "ABCDEFGHIJKLMNOPQRSTUVWXYZ"

LowerLetters == "abcdefghijklmnopqrstuvwxyz"

DigitChars == "0123456789"

\* the characters of the string a, and the position of each in a
CharsOf(a) == {Ch(a, k) : k \in 1..Len(a)}

PositionIn(a) == [c \in CharsOf(a) |-> CHOOSE k \in 1..Len(a) : Ch(a, k) = c]

UpperSet == CharsOf(UpperLetters)

UpperPosition == PositionIn(UpperLetters)

DigitSet == CharsOf(DigitChars)

DigitPosition == PositionIn(DigitChars)

WordSet == UpperSet \cup CharsOf(LowerLetters) \cup DigitSet \cup {"_"}

IsDigit(c) == c \in DigitSet

\* \s of the regular expressions and the characters trim() removes
IsSpace(c) == c \in {" ", "\t", "\n", "\r"}

\* \w of the regular expressions
IsWordChar(c) == c \in WordSet

LowerCh(c) == IF c \in UpperSet THEN Ch(LowerLetters, UpperPosition[c]) ELSE c

RECURSIVE toLowerCase(_)
toLowerCase(s) ==
    IF s = "" THEN "" ELSE LowerCh(Head(s)) \o toLowerCase(Tail(s))

\* s has sub at the (1-based) position p
MatchAt(s, sub, p) ==
    /\ p >= 1
    /\ p + Len(sub) - 1 <= Len(s)
    /\ SubSeq(s, p, p + Len(sub) - 1) = sub

startsWith(s, sub) == MatchAt(s, sub, 1)

endsWith(s, sub) == MatchAt(s, sub, Len(s) - Len(sub) + 1)

includes(s, sub) == \E p \in 1..(Len(s) + 1) : MatchAt(s, sub, p)

\* String.prototype.indexOf: 0-based index of the first occurrence, or -1
JsIndexOf(s, sub) ==
    IF includes(s, sub)
    THEN (CHOOSE p \in 1..(Len(s) + 1) :
              /\ MatchAt(s, sub, p)
              /\ \A q \in 1..(p - 1) : ~MatchAt(s, sub, q)) - 1
    ELSE -1

\* String.prototype.substring(from): from is a 0-based index, clamped
JsSubstring(s, from) ==
    LET f == IF from < 0 THEN 0 ELSE IF from > Len(s) THEN Len(s) ELSE from
    IN  SubSeq(s, f + 1, Len(s))

RECURSIVE trimStart(_)
trimStart(s) ==
    IF s # "" /\ IsSpace(Head(s)) THEN trimStart(Tail(s)) ELSE s

RECURSIVE trimEnd(_)
trimEnd(s) ==
    IF s # "" /\ IsSpace(Ch(s, Len(s))) THEN trimEnd(SubSeq(s, 1, Len(s) - 1)) ELSE s

trim(s) == trimEnd(trimStart(s))

\* s.replace(/\s+/g, ' '): every run of white space becomes one blank
RECURSIVE CollapseSpaces(_)
CollapseSpaces(s) ==
    IF s = "" THEN ""
    ELSE IF IsSpace(Head(s))
         THEN " " \o CollapseSpaces(trimStart(s))
         ELSE Head(s) \o CollapseSpaces(Tail(s))

\* s.replace(/\D/g, ''): the digits of s
RECURSIVE DigitsOnly(_)
DigitsOnly(s) ==
    IF s = "" THEN ""
    ELSE (IF IsDigit(Head(s)) THEN Head(s) ELSE "") \o DigitsOnly(Tail(s))

\* s.split(' '): the pieces between single blanks (empty pieces kept)
RECURSIVE split(_)
split(s) ==
    LET i == JsIndexOf(s, " ")
    IN  IF i = -1 THEN <<s>>
        ELSE <<SubSeq(s, 1, i)>> \o split(JsSubstring(s, i + 1))

\* parseInt of a string of decimal digits
RECURSIVE parseInt(_)
parseInt(s) ==
    IF s = "" THEN 0
    ELSE 10 * parseInt(SubSeq(s, 1, Len(s) - 1)) + (DigitPosition[Ch(s, Len(s))] - 1)

\* first position >= p of s that holds no white space (\s* taken greedily)
RECURSIVE SkipSpaces(_, _)
SkipSpaces(s, p) ==
    IF p <= Len(s) /\ IsSpace(Ch(s, p)) THEN SkipSpaces(s, p + 1) ELSE p

\* first position >= p of s that holds no digit (\d+ taken greedily)
RECURSIVE SkipDigits(_, _)
SkipDigits(s, p) ==
    IF p <= Len(s) /\ IsDigit(Ch(s, p)) THEN SkipDigits(s, p + 1) ELSE p

\* \b between the positions p-1 and p of s
WordBoundary(s, p) == IsWordChar(Ch(s, p - 1)) # IsWordChar(Ch(s, p))

\* s without the positions from..(to - 1): replace(<pattern>, '') of one match
RemoveSpan(s, from, to) == SubSeq(s, 1, from - 1) \o SubSeq(s, to, Len(s))

(***************************************************************************)
(* Time.  A DateTime in the zone Asia/Dhaka (fixed offset, no daylight     *)
(* saving) is the number of seconds since a local midnight.                *)
(***************************************************************************)
plusHours(t, n) == t + n * 3600

plusMinutes(t, n) == t + n * 60

plusDays(t, n) == t + n * 86400

\* dt.set({ hour, minute, second: 0, millisecond: 0 }); units overflow
setTime(t, hour, minute) == (t - (t % 86400)) + hour * 3600 + minute * 60

(***************************************************************************)
(* The regular expressions of parseNaturalTime.  A match is a record       *)
(* [ok, from, to, ...]: the match is the positions from..(to - 1).         *)
(***************************************************************************)
NoMatch == [ok |-> FALSE, from |-> 0, to |-> 0, hours |-> 0, minutes |-> 0,
            ampm |-> "", amount |-> 0, unit |-> ""]

\* (\d{1,2})(?::(\d{2}))?\s*(am|pm)?  matched at position p, case-insensitive
\* (under the flag i a pattern is matched against s and its lower case, low)
TimeTail(s, low, p) ==
    LET d      == IF IsDigit(Ch(s, p + 1)) THEN p + 2 ELSE p + 1
        hasMin == Ch(s, d) = ":" /\ IsDigit(Ch(s, d + 1)) /\ IsDigit(Ch(s, d + 2))
        m      == IF hasMin THEN d + 3 ELSE d
        sp     == SkipSpaces(s, m)
        ap     == IF MatchAt(low, "am", sp) THEN "am"
                  ELSE IF MatchAt(low, "pm", sp) THEN "pm" ELSE ""
    IN  IF ~IsDigit(Ch(s, p)) THEN NoMatch
        ELSE [NoMatch EXCEPT !.ok = TRUE, !.from = p,
                             !.to = IF ap = "" THEN sp ELSE sp + 2,
                             !.hours = parseInt(SubSeq(s, p, d - 1)),
                             !.minutes = IF hasMin THEN parseInt(SubSeq(s, d + 1, d + 2)) ELSE 0,
                             !.ampm = ap]

\* the alternation (hour|hr|minute|min|h|m), tried in this order
UnitAlternatives == <<"hour", "hr", "minute", "min", "h", "m">>

\* (hour|hr|minute|min|h|m)(?:s?)\b with the k-th alternative at position p:
\* the position after the match, 0 when this alternative fails
UnitTry(low, p, k) ==
    LET e == p + Len(UnitAlternatives[k])
    IN  IF ~MatchAt(low, UnitAlternatives[k], p) THEN 0
        ELSE IF Ch(low, e) = "s" /\ WordBoundary(low, e + 1) THEN e + 1
        ELSE IF WordBoundary(low, e) THEN e
        ELSE 0

\* inPattern = /in\s+(\d+)\s+(hour|hr|minute|min|h|m)(?:s?)\b/i at position q
InPatternAt(s, low, q) ==
    LET a   == q + 2
        b   == SkipSpaces(s, a)
        c   == SkipDigits(s, b)
        d   == SkipSpaces(s, c)
        ks  == {k \in 1..Len(UnitAlternatives) : UnitTry(low, d, k) > 0}
        k1  == CHOOSE k \in ks : \A j \in ks : k <= j
    IN  IF MatchAt(low, "in", q) /\ b > a /\ c > b /\ d > c /\ ks # {}
        THEN [NoMatch EXCEPT !.ok = TRUE, !.from = q, !.to = UnitTry(low, d, k1),
                             !.amount = parseInt(SubSeq(s, b, c - 1)),
                             !.unit = UnitAlternatives[k1]]
        ELSE NoMatch

\* tomorrowPattern = /tomorrow\s+(?:at\s+)?(\d{1,2})(?::(\d{2}))?\s*(am|pm)?/i
\* and dailyPattern = /(?:daily|every\s+day)\s+(?:at\s+)?(\d{1,2})...: what
\* follows the keyword that ended just before position a
AfterKeyword(s, low, q, a) ==
    LET b   == SkipSpaces(s, a)
        c   == IF MatchAt(low, "at", b) /\ SkipSpaces(s, b + 2) > b + 2
                  /\ IsDigit(Ch(s, SkipSpaces(s, b + 2)))
               THEN SkipSpaces(s, b + 2) ELSE b
        t   == TimeTail(s, low, c)
    IN  IF b > a /\ t.ok THEN [t EXCEPT !.from = q] ELSE NoMatch

TomorrowPatternAt(s, low, q) ==
    IF MatchAt(low, "tomorrow", q) THEN AfterKeyword(s, low, q, q + 8) ELSE NoMatch

DailyPatternAt(s, low, q) ==
    LET e == SkipSpaces(s, q + 5)
    IN  IF MatchAt(low, "daily", q) THEN AfterKeyword(s, low, q, q + 5)
        ELSE IF MatchAt(low, "every", q) /\ e > q + 5 /\ MatchAt(low, "day", e)
             THEN AfterKeyword(s, low, q, e + 3)
        ELSE NoMatch

\* timePattern = /(\d{1,2})(?::(\d{2}))?\s*(am|pm)?/i
TimePatternAt(s, low, q) == TimeTail(s, low, q)

\* String.prototype.match without the g flag: the leftmost match, given the
\* set of the positions where the pattern matches
Leftmost(qs) == CHOOSE q \in qs : \A r \in qs : q <= r

InMatch(s, low) ==
    LET qs == {q \in 1..Len(s) : InPatternAt(s, low, q).ok}
    IN  IF qs = {} THEN NoMatch ELSE InPatternAt(s, low, Leftmost(qs))

TomorrowMatch(s, low) ==
    LET qs == {q \in 1..Len(s) : TomorrowPatternAt(s, low, q).ok}
    IN  IF qs = {} THEN NoMatch ELSE TomorrowPatternAt(s, low, Leftmost(qs))

DailyMatch(s, low) ==
    LET qs == {q \in 1..Len(s) : DailyPatternAt(s, low, q).ok}
    IN  IF qs = {} THEN NoMatch ELSE DailyPatternAt(s, low, Leftmost(qs))

TimeMatch(s, low) ==
    LET qs == {q \in 1..Len(s) : TimePatternAt(s, low, q).ok}
    IN  IF qs = {} THEN NoMatch ELSE TimePatternAt(s, low, Leftmost(qs))

\* Convert to 24-hour format (part_001:1043-1044)
Hour24(hours, ampm) ==
    IF ampm = "pm" /\ hours < 12 THEN hours + 12
    ELSE IF ampm = "am" /\ hours = 12 THEN 0
    ELSE hours

\* s.replace(/^(to|that|for)\s+/i, '')
StripLeadWord(s) ==
    LET low  == toLowerCase(s)
        lens == {Len(w) : w \in {w \in {"to", "that", "for"} :
                                     startsWith(low, w) /\ IsSpace(Ch(s, Len(w) + 1))}}
    IN  IF lens = {} THEN s
        ELSE JsSubstring(s, SkipSpaces(s, (CHOOSE k \in lens : TRUE) + 1) - 1)

\* message.replace(pattern, '').replace(/\s+/g, ' ').trim()
CutMatch(message, m) == trim(CollapseSpaces(RemoveSpan(message, m.from, m.to)))

triggerWords == <<"remind me", "reminder", "alarm", "alert me">>

\* Remove command prefix if present (part_001:1005-1007)
RemovePrefix(message) ==
    IF startsWith(message, "!addreminder") \/ startsWith(message, "/addreminder")
    THEN trim(JsSubstring(message, JsIndexOf(message, " ") + 1))
    ELSE message

\* what follows the trigger word, trimmed
AfterWord(text, lowerText, word) ==
    trim(JsSubstring(text, JsIndexOf(lowerText, word) + Len(word)))

\* the loop over triggerWords: the first word the text includes decides
AfterTrigger(text, lowerText, ws) ==
    IF ws = {} THEN text
    ELSE AfterWord(text, lowerText, triggerWords[CHOOSE k \in ws : \A j \in ws : k <= j])

\* Extract message (remove trigger words), part_001:994-1007
ExtractMessage(text, lowerText) ==
    RemovePrefix(AfterTrigger(text, lowerText,
        {k \in 1..Len(triggerWords) : includes(lowerText, triggerWords[k])}))

\* dueAt of a wall-clock time today: tomorrow when it already passed
TodayOrTomorrow(now, at) == IF at < now THEN plusDays(at, 1) ELSE at

\* Parse time patterns (part_001:1009-1108), given the matches of the four
\* patterns in message: the first pattern that matched decides
ParsePatterns(message, now, inMatch, tomorrowMatch, dailyMatch, timeMatch) ==
    IF inMatch.ok
    THEN [dueAt   |-> IF startsWith(inMatch.unit, "h")
                      THEN plusHours(now, inMatch.amount)
                      ELSE plusMinutes(now, inMatch.amount),
          message |-> trim(StripLeadWord(CutMatch(message, inMatch)))]
    ELSE IF tomorrowMatch.ok
    THEN [dueAt   |-> setTime(plusDays(now, 1),
                              Hour24(tomorrowMatch.hours, tomorrowMatch.ampm),
                              tomorrowMatch.minutes),
          message |-> trim(StripLeadWord(CutMatch(message, tomorrowMatch)))]
    ELSE IF dailyMatch.ok
    THEN [dueAt   |-> TodayOrTomorrow(now, setTime(now, Hour24(dailyMatch.hours,
                                                               dailyMatch.ampm),
                                                   dailyMatch.minutes)),
          message |-> "Daily: " \o CutMatch(message, dailyMatch)]
    ELSE IF timeMatch.ok
    THEN [dueAt   |-> TodayOrTomorrow(now, setTime(now, Hour24(timeMatch.hours,
                                                               timeMatch.ampm),
                                                   timeMatch.minutes)),
          message |-> CutMatch(message, timeMatch)]
    ELSE [dueAt |-> plusHours(now, 1), message |-> message]

ParseMessage(message, low, now) ==
    ParsePatterns(message, now, InMatch(message, low), TomorrowMatch(message, low),
                  DailyMatch(message, low), TimeMatch(message, low))

\* a clean-up that appends the due time to the message
CleanUpStamped(parsed) ==
    [parsed EXCEPT !.message = (IF @ = "" THEN "Reminder" ELSE @)
                               \o " at " \o ToString(parsed.dueAt)]

\* Clean up message (part_001:1110-1113)
CleanUp(parsed) == [parsed EXCEPT !.message = IF @ = "" THEN "Reminder" ELSE @]

ParseExtracted(message, now) == CleanUp(ParseMessage(message, toLowerCase(message), now))

\* parseNaturalTime(text), with the reading of DateTime.now() as a parameter
parseNaturalTime(text, now) == ParseExtracted(ExtractMessage(text, toLowerCase(text)), now)

(***************************************************************************)
(* The admin store, src/src/utils/admin.js.                                *)
(*                                                                         *)
(* file is data/admins.json: kind says what a read finds there             *)
(*   "missing"    no such file            "unreadable" readFile fails      *)
(*   "badjson"    JSON.parse fails        "noadmins"   no 'admins' array   *)
(*   "ok"         { admins: [...] }, the array being file.admins           *)
(* disk says whether the writes of a call (mkdir, writeFile) succeed.      *)
(* A function of the source is an operator that returns a record with the  *)
(* file as the call leaves it, threw (an exception left the function) and  *)
(* the value returned.                                                     *)
(***************************************************************************)
CREATOR_JID == "8801316655254@s.whatsapp.net"

UserA == "8801712345678@s.whatsapp.net"

UserB == "8801911111111@s.whatsapp.net"

GroupJid == "120363025246125486@g.us"

File(kind, admins) == [kind |-> kind, admins |-> admins]

\* what is in the file, as a list of JIDs: the list a read of the file yields
StoredList(f) == IF f.kind = "ok" THEN f.admins ELSE <<>>

Contains(list, jid) == \E i \in 1..Len(list) : list[i] = jid

RECURSIVE Without(_, _)
Without(list, jid) ==
    IF list = <<>> THEN <<>>
    ELSE (IF Head(list) = jid THEN <<>> ELSE <<Head(list)>>) \o Without(Tail(list), jid)

\* fs.access(ADMINS_FILE) throws
AccessThrows(f) == f.kind = "missing"

\* fs.readFile(ADMINS_FILE, 'utf8') throws
ReadFileThrows(f) == f.kind \in {"missing", "unreadable"}

\* JSON.parse(data) throws
JsonParseThrows(f) == f.kind = "badjson"

ensureAdminsFile(f, disk) ==
    IF ~disk THEN [file |-> f, threw |-> FALSE]
    ELSE IF AccessThrows(f) THEN [file |-> File("ok", <<>>), threw |-> FALSE]
    ELSE [file |-> f, threw |-> FALSE]

\* the try block of readAdminsFromFile on the file ensureAdminsFile left: a
\* failing read or parse is caught and yields [], parsed.admins || [] otherwise
ReadAdmins(f) ==
    IF ReadFileThrows(f) \/ JsonParseThrows(f)
    THEN [file |-> f, threw |-> FALSE, admins |-> <<>>]
    ELSE [file |-> f, threw |-> FALSE, admins |-> StoredList(f)]

\* readAdminsFromFile without its catch block: a failing read or parse throws
UncaughtRead(f) ==
    [file |-> f, threw |-> ReadFileThrows(f) \/ JsonParseThrows(f), admins |-> StoredList(f)]

readAdminsFromFileNoCatch(f, disk) == UncaughtRead(ensureAdminsFile(f, disk).file)

readAdminsFromFile(f, disk) == ReadAdmins(ensureAdminsFile(f, disk).file)

writeAdminsToFile(f, admins, disk) ==
    IF disk THEN [file |-> File("ok", admins), threw |-> FALSE]
    ELSE [file |-> f, threw |-> TRUE]

\* isCreator comparing with the creator's bare number
isCreatorBareNumber(jid) == jid = "8801316655254"

isCreator(jid) == jid = CREATOR_JID

\* the try block of isAdmin on the list read
AdminAmong(r, jid) ==
    [file |-> r.file, threw |-> r.threw, value |-> ~r.threw /\ Contains(r.admins, jid)]

isAdmin(f, jid, disk) ==
    IF jid = "" THEN [file |-> f, threw |-> FALSE, value |-> FALSE]
    ELSE IF isCreator(jid) THEN [file |-> f, threw |-> FALSE, value |-> TRUE]
    ELSE AdminAmong(readAdminsFromFile(f, disk), jid)

Result(f, success, message) ==
    [file |-> f, threw |-> FALSE, success |-> success, message |-> message]

\* the test both functions make of targetJid (admin.js:115, 175)
InvalidJid(targetJid) == targetJid = "" \/ ~includes(targetJid, "@s.whatsapp.net")

\* the result after writeAdminsToFile: the catch block turns a throw into a failure
Written(w, done, failed) ==
    IF w.threw THEN Result(w.file, FALSE, failed) ELSE Result(w.file, TRUE, done)

\* the try block of promoteAdmin putting the target first (unshift)
PromoteInFront(r, targetJid, disk) ==
    IF r.threw THEN Result(r.file, FALSE, "Failed to promote user")
    ELSE IF Contains(r.admins, targetJid)
    THEN Result(r.file, FALSE, "User is already an admin")
    ELSE Written(writeAdminsToFile(r.file, <<targetJid>> \o r.admins, disk),
                 "User promoted to admin successfully", "Failed to promote user")

\* the try block of promoteAdmin without the test admins.includes(targetJid)
PromoteInUnchecked(r, targetJid, disk) ==
    IF r.threw THEN Result(r.file, FALSE, "Failed to promote user")
    ELSE Written(writeAdminsToFile(r.file, Append(r.admins, targetJid), disk),
                 "User promoted to admin successfully", "Failed to promote user")

\* the try block of promoteAdmin on the list read
PromoteIn(r, targetJid, disk) ==
    IF r.threw THEN Result(r.file, FALSE, "Failed to promote user")
    ELSE IF Contains(r.admins, targetJid)
    THEN Result(r.file, FALSE, "User is already an admin")
    ELSE Written(writeAdminsToFile(r.file, Append(r.admins, targetJid), disk),
                 "User promoted to admin successfully", "Failed to promote user")

\* promoteAdmin without the check of the promoter
promoteAdminAnyCaller(f, promoterJid, targetJid, disk) ==
    IF InvalidJid(targetJid) THEN Result(f, FALSE, "Invalid JID format")
    ELSE IF isCreator(targetJid) THEN Result(f, FALSE, "Creator is already admin")
    ELSE PromoteIn(readAdminsFromFile(f, disk), targetJid, disk)

promoteAdmin(f, promoterJid, targetJid, disk) ==
    IF ~isCreator(promoterJid) THEN Result(f, FALSE, "Only the creator can promote admins")
    ELSE IF InvalidJid(targetJid) THEN Result(f, FALSE, "Invalid JID format")
    ELSE IF isCreator(targetJid) THEN Result(f, FALSE, "Creator is already admin")
    ELSE PromoteIn(readAdminsFromFile(f, disk), targetJid, disk)

\* the guards of promoteAdmin ahead of its try block: the message of the
\* refusal, or "" when the call goes on to read the file
PromoteRefusal(promoterJid, targetJid) ==
    IF ~isCreator(promoterJid) THEN "Only the creator can promote admins"
    ELSE IF InvalidJid(targetJid) THEN "Invalid JID format"
    ELSE IF isCreator(targetJid) THEN "Creator is already admin"
    ELSE ""

\* promoteAdmin resumed with the list read r: it returns, or pushes the
\* target onto that list and waits for writeAdminsToFile
PromoteResumed(call, r) ==
    IF r.threw
    THEN [call EXCEPT !.pc = "returned", !.message = "Failed to promote user"]
    ELSE IF Contains(r.admins, call.target)
    THEN [call EXCEPT !.pc = "returned", !.message = "User is already an admin"]
    ELSE [call EXCEPT !.pc = "writing", !.admins = Append(r.admins, call.target)]

\* promoteAdmin resumed after writeAdminsToFile returned or threw w
PromoteReturned(call, w) ==
    [call EXCEPT !.pc = "returned",
                 !.success = ~w.threw,
                 !.message = Written(w, "User promoted to admin successfully",
                                     "Failed to promote user").message]

\* the try block of demoteAdmin writing the list read, not the filtered one
DemoteInUnfiltered(r, targetJid, disk) ==
    IF r.threw THEN Result(r.file, FALSE, "Failed to demote user")
    ELSE IF ~Contains(r.admins, targetJid)
    THEN Result(r.file, FALSE, "User is not an admin")
    ELSE Written(writeAdminsToFile(r.file, r.admins, disk),
                 "User demoted from admin successfully", "Failed to demote user")

\* the try block of demoteAdmin on the list read
DemoteIn(r, targetJid, disk) ==
    IF r.threw THEN Result(r.file, FALSE, "Failed to demote user")
    ELSE IF ~Contains(r.admins, targetJid)
    THEN Result(r.file, FALSE, "User is not an admin")
    ELSE Written(writeAdminsToFile(r.file, Without(r.admins, targetJid), disk),
                 "User demoted from admin successfully", "Failed to demote user")

demoteAdmin(f, demoterJid, targetJid, disk) ==
    IF ~isCreator(demoterJid) THEN Result(f, FALSE, "Only the creator can demote admins")
    ELSE IF InvalidJid(targetJid) THEN Result(f, FALSE, "Invalid JID format")
    ELSE IF isCreator(targetJid) THEN Result(f, FALSE, "Cannot demote the creator")
    ELSE DemoteIn(readAdminsFromFile(f, disk), targetJid, disk)

\* { creator: CREATOR_JID, admins } of the list read
ListOf(r) ==
    [file |-> r.file, threw |-> r.threw, creator |-> CREATOR_JID, admins |-> r.admins]

getAdminList(f, disk) == ListOf(readAdminsFromFile(f, disk))

\* what initAdminSystem leaves of the list read for the count it logs
Initialized(r) == [file |-> r.file, threw |-> r.threw]

initAdminSystem(f, disk) ==
    Initialized(readAdminsFromFile(ensureAdminsFile(f, disk).file, disk))

(***************************************************************************)
(* The reminder store, services/reminder.js: create, list and delete       *)
(* records keyed by user.  A reminder is [id, jid, user, text, dueAt];     *)
(* the store is the sequence of the pending ones, n the number created.    *)
(* The file is not among the sources; the operators follow what the        *)
(* specification says of it and the calls bot.js makes of it.              *)
(***************************************************************************)
ReminderId(n) == "r" \o Ch(DigitChars, n + 1)

\* initReminderSystem(): it loads nothing and starts no timer
initReminderSystem(store) == store

createReminder(store, n, jid, sender, message, dueAt) ==
    LET reminder == [id |-> ReminderId(n + 1), jid |-> jid, user |-> sender,
                     text |-> message, dueAt |-> dueAt]
    IN  [store |-> Append(store, reminder), n |-> n + 1, reminder |-> reminder]

getUserReminders(store, sender) == SelectSeq(store, LAMBDA r : r.user = sender)

deleteReminder(store, reminderId, sender) ==
    LET hit(r) == r.id = reminderId /\ r.user = sender
    IN  [store   |-> SelectSeq(store, LAMBDA r : ~hit(r)),
         success |-> \E i \in 1..Len(store) : hit(store[i])]

(***************************************************************************)
(* The handlers of bot.js (src/unnamed/part_001).  A handler is an         *)
(* operator on the record st:                                              *)
(*   file, store, n   the admin file and the reminder store                *)
(*   sent             the calls of sock.sendMessage so far, each           *)
(*                    [to, text, ok]; text is the opening words of the     *)
(*                    message, ok whether the call returned                *)
(*   calls            the functions of admin.js called so far              *)
(*   handlers         the handlers handleCommand invoked ("ping" is the    *)
(*                    reply handleCommand sends itself)                    *)
(*   threw            an exception is propagating                          *)
(*   net, disk, now   the environment of this event: sock.sendMessage      *)
(*                    returns (or throws), writes succeed, the clock       *)
(***************************************************************************)
\* await sock.sendMessage(to, { text }) outside any try block
Send(st, to, text) ==
    [st EXCEPT !.sent = Append(@, [to |-> to, text |-> text, ok |-> st.net]),
               !.threw = ~st.net]

\* try { await sock.sendMessage(to, { text }) } catch { }
TrySend(st, to, text) ==
    [st EXCEPT !.sent = Append(@, [to |-> to, text |-> text, ok |-> st.net])]

Called(st, fn) == [st EXCEPT !.calls = Append(@, fn)]

\* for (const adminJid of admins) if (adminJid !== CREATOR_JID [&& !== skip]) try send
RECURSIVE SendToAdmins(_, _, _, _)
SendToAdmins(st, admins, skip, text) ==
    IF admins = <<>> THEN st
    ELSE SendToAdmins(IF Head(admins) # CREATOR_JID /\ Head(admins) # skip
                      THEN TrySend(st, Head(admins), text) ELSE st,
                      Tail(admins), skip, text)

sendStartupMessage(st) == TrySend(st, CREATOR_JID, "Bot Started")

\* st after a call of getAdminList that returned l
Listed(st, l) == Called([st EXCEPT !.file = l.file], "getAdminList")

\* the notification to the creator and then to the other admins of l
NotifyList(st, l) ==
    SendToAdmins(TrySend(Listed(st, l), CREATOR_JID, "Bot is Now Online"),
                 l.admins, "", "Bot is Now Online")

notifyAdmins(st) == NotifyList(st, getAdminList(st.file, st.disk))

sendHelpMessage(st, jid) == Send(st, jid, "Available Commands")

sendBotInfo(st, jid) == Send(st, jid, "Bot Information")

sendCurrentTime(st, jid) == Send(st, jid, "Current Time")

handleAdminsCommand(st, jid, isUserAdmin) ==
    IF ~isUserAdmin
    THEN Send(st, jid, "This command is only available to administrators.")
    ELSE Send(Listed(st, getAdminList(st.file, st.disk)), jid, "Admin List")

\* the number typed after the command is a 13-digit number starting 880
ValidPhone(phoneNumber) == startsWith(phoneNumber, "880") /\ Len(phoneNumber) = 13

\* if (result.success) try { notify the target } catch { }
NotifyTarget(s1, success, targetJid, text) ==
    IF s1.threw \/ ~success THEN s1 ELSE TrySend(s1, targetJid, text)

\* the reply with the message of the result, then the notice to the target
ReplyResult(st, jid, targetJid, fn, result, notice) ==
    NotifyTarget(Send(Called([st EXCEPT !.file = result.file], fn), jid, result.message),
                 result.success, targetJid, notice)

\* handlePromoteCommand from the phone number on
PromotePhone(st, jid, sender, phone) ==
    IF ~ValidPhone(phone)
    THEN Send(st, jid, "Invalid Bangladeshi phone number format.")
    ELSE ReplyResult(st, jid, phone \o "@s.whatsapp.net", "promoteAdmin",
                     promoteAdmin(st.file, sender, phone \o "@s.whatsapp.net", st.disk),
                     "You have been promoted to Administrator!")

\* handlePromoteCommand without the check of isUserCreator
handlePromoteCommandAnyAdmin(st, jid, sender, text, isUserAdmin, isUserCreator) ==
    IF ~isUserAdmin
    THEN Send(st, jid, "Admin commands are restricted to administrators only.")
    ELSE IF Len(split(text)) < 2 THEN Send(st, jid, "Usage: !promote <phone_number>")
    ELSE PromotePhone(st, jid, sender, DigitsOnly(split(text)[2]))

handlePromoteCommand(st, jid, sender, text, isUserAdmin, isUserCreator) ==
    IF ~isUserAdmin
    THEN Send(st, jid, "Admin commands are restricted to administrators only.")
    ELSE IF ~isUserCreator
    THEN Send(st, jid, "Only the creator can promote/demote administrators.")
    ELSE IF Len(split(text)) < 2 THEN Send(st, jid, "Usage: !promote <phone_number>")
    ELSE PromotePhone(st, jid, sender, DigitsOnly(split(text)[2]))

\* handleDemoteCommand from the phone number on
DemotePhone(st, jid, sender, phone) ==
    IF ~ValidPhone(phone)
    THEN Send(st, jid, "Invalid Bangladeshi phone number format.")
    ELSE ReplyResult(st, jid, phone \o "@s.whatsapp.net", "demoteAdmin",
                     demoteAdmin(st.file, sender, phone \o "@s.whatsapp.net", st.disk),
                     "Your Administrator privileges have been removed.")

handleDemoteCommand(st, jid, sender, text, isUserAdmin, isUserCreator) ==
    IF ~isUserAdmin
    THEN Send(st, jid, "Admin commands are restricted to administrators only.")
    ELSE IF ~isUserCreator
    THEN Send(st, jid, "Only the creator can promote/demote administrators.")
    ELSE IF Len(split(text)) < 2 THEN Send(st, jid, "Usage: !demote <phone_number>")
    ELSE DemotePhone(st, jid, sender, DigitsOnly(split(text)[2]))

\* text.substring(text.indexOf(' ') + 1).trim(): what follows the first blank
\* (the whole text when it has no blank)
AfterFirstBlank(text) == trim(JsSubstring(text, JsIndexOf(text, " ") + 1))

\* try { body } catch (error) { await sock.sendMessage(jid, failure) }
CatchAndReport(body, jid, failure) ==
    IF body.threw THEN Send([body EXCEPT !.threw = FALSE], jid, failure) ELSE body

\* the try block of handleBroadcastCommand on the admin list l
BroadcastTo(st, jid, sender, l) ==
    Send(SendToAdmins(TrySend(Listed(st, l), CREATOR_JID, "Broadcast from"),
                      l.admins, sender, "Broadcast from"),
         jid, "Broadcast sent to")

handleBroadcastCommand(st, jid, sender, text, isUserAdmin) ==
    IF ~isUserAdmin THEN Send(st, jid, "Admin commands are restricted.")
    ELSE IF AfterFirstBlank(text) = "" THEN Send(st, jid, "Usage: !broadcast <message>")
    ELSE CatchAndReport(BroadcastTo(st, jid, sender, getAdminList(st.file, st.disk)),
                        jid, "Broadcast failed")

\* the confirmation once createReminder returned c
Confirm(st, jid, c) == Send([st EXCEPT !.store = c.store, !.n = c.n], jid, "Reminder Set!")

\* createReminder of the parsed text, then the confirmation
SetReminder(st, jid, sender, parsedTime) ==
    Confirm(st, jid, createReminder(st.store, st.n, jid, sender,
                                    parsedTime.message, parsedTime.dueAt))

\* the try block of handleAddReminder
AddReminderText(st, jid, sender, reminderText) ==
    IF reminderText = "" THEN Send(st, jid, "Usage: !addreminder <time> <message>")
    ELSE SetReminder(st, jid, sender, parseNaturalTime(reminderText, st.now))

handleAddReminder(st, jid, sender, text) ==
    CatchAndReport(AddReminderText(st, jid, sender, AfterFirstBlank(text)),
                   jid, "Failed to create reminder")

handleMyReminders(st, jid, sender) ==
    CatchAndReport(
        IF getUserReminders(st.store, sender) = <<>>
        THEN Send(st, jid, "You have no pending reminders.")
        ELSE Send(st, jid, "Your Pending Reminders"),
        jid, "Failed to get your reminders")

\* the reply once deleteReminder returned d
Deleted(st, jid, d) ==
    IF d.success
    THEN Send([st EXCEPT !.store = d.store], jid, "Reminder cancelled successfully.")
    ELSE Send(st, jid, "Could not find reminder with ID")

\* the try block of handleCancelReminder
CancelId(st, jid, sender, reminderId) ==
    IF reminderId = "" THEN Send(st, jid, "Usage: !cancelreminder <reminder_id>")
    ELSE Deleted(st, jid, deleteReminder(st.store, reminderId, sender))

handleCancelReminder(st, jid, sender, text) ==
    CatchAndReport(CancelId(st, jid, sender, AfterFirstBlank(text)),
                   jid, "Failed to cancel reminder")

handleNaturalReminder(st, jid, sender, text) ==
    CatchAndReport(SetReminder(st, jid, sender, parseNaturalTime(text, st.now)),
                   jid, "Failed to create reminder")

\* lowerText is the command c in its '!' or its '/' form
IsCommand(lowerText, c) == lowerText = "!" \o c \/ lowerText = "/" \o c

\* lowerText starts with the command c in its '!' or its '/' form
StartsCommand(lowerText, c) ==
    startsWith(lowerText, "!" \o c) \/ startsWith(lowerText, "/" \o c)

\* Command routing (part_001:370-440): the branch of the if-chain taken
RouteLower(text, lowerText) ==
    IF IsCommand(lowerText, "ping") THEN "ping"
    ELSE IF IsCommand(lowerText, "help") \/ lowerText = "!start" THEN "help"
    ELSE IF IsCommand(lowerText, "info") THEN "info"
    ELSE IF IsCommand(lowerText, "time") THEN "time"
    ELSE IF IsCommand(lowerText, "admins") THEN "admins"
    ELSE IF StartsCommand(lowerText, "promote") THEN "promote"
    ELSE IF StartsCommand(lowerText, "demote") THEN "demote"
    ELSE IF StartsCommand(lowerText, "broadcast") THEN "broadcast"
    ELSE IF StartsCommand(lowerText, "addreminder") THEN "addreminder"
    ELSE IF StartsCommand(lowerText, "myreminders") THEN "myreminders"
    ELSE IF StartsCommand(lowerText, "cancelreminder") THEN "cancelreminder"
    ELSE IF includes(lowerText, "remind me") \/ includes(lowerText, "reminder")
            \/ includes(lowerText, "alarm") THEN "natural"
    ELSE IF startsWith(text, "!") \/ startsWith(text, "/") THEN "unknown"
    ELSE "none"

Route(text) == RouteLower(text, toLowerCase(text))

Invoked(st, h) == [st EXCEPT !.handlers = Append(@, h)]

\* the if-chain of handleCommand: the handler of the branch
Dispatch(st, branch, jid, sender, text, isUserAdmin, isUserCreator) ==
    CASE branch = "ping"      -> Send(Invoked(st, "ping"), jid, "Pong!")
      [] branch = "help"      -> sendHelpMessage(Invoked(st, "sendHelpMessage"), jid)
      [] branch = "info"      -> sendBotInfo(Invoked(st, "sendBotInfo"), jid)
      [] branch = "time"      -> sendCurrentTime(Invoked(st, "sendCurrentTime"), jid)
      [] branch = "admins"    ->
           handleAdminsCommand(Invoked(st, "handleAdminsCommand"), jid, isUserAdmin)
      [] branch = "promote"   ->
           handlePromoteCommand(Invoked(st, "handlePromoteCommand"), jid, sender,
                                text, isUserAdmin, isUserCreator)
      [] branch = "demote"    ->
           handleDemoteCommand(Invoked(st, "handleDemoteCommand"), jid, sender,
                               text, isUserAdmin, isUserCreator)
      [] branch = "broadcast" ->
           handleBroadcastCommand(Invoked(st, "handleBroadcastCommand"), jid,
                                  sender, text, isUserAdmin)
      [] branch = "addreminder" ->
           handleAddReminder(Invoked(st, "handleAddReminder"), jid, sender, text)
      [] branch = "myreminders" ->
           handleMyReminders(Invoked(st, "handleMyReminders"), jid, sender)
      [] branch = "cancelreminder" ->
           handleCancelReminder(Invoked(st, "handleCancelReminder"), jid, sender, text)
      [] branch = "natural"   ->
           handleNaturalReminder(Invoked(st, "handleNaturalReminder"), jid, sender, text)
      [] branch = "unknown"   -> Send(st, jid, "Unknown command.")
      [] OTHER                -> st

\* } catch (error) { try { send 'An error occurred ...' } catch { } }
CatchCommandError(r, jid) ==
    IF r.threw
    THEN [TrySend(r, jid, "An error occurred while processing your command.")
              EXCEPT !.threw = FALSE]
    ELSE r

\* handleCommand once isAdmin(sender) returned a
CommandOf(st, a, jid, sender, text) ==
    IF a.threw
    THEN CatchCommandError(Called([st EXCEPT !.file = a.file, !.threw = TRUE], "isAdmin"), jid)
    ELSE CatchCommandError(
             Dispatch(Called([st EXCEPT !.file = a.file], "isAdmin"), Route(text), jid,
                      sender, text, a.value, isCreator(sender)),
             jid)

handleCommand(st, jid, sender, text, isGroup) ==
    CommandOf(st, isAdmin(st.file, sender, st.disk), jid, sender, text)

(***************************************************************************)
(* Inbound messages.  A message of a messages.upsert event is              *)
(*   [remoteJid, participant, fromMe, kind, text]                          *)
(* kind is the key of msg.message that is present ("none" when msg.message *)
(* is absent), text its text or caption, participant "" when absent.       *)
(***************************************************************************)
Msg(remoteJid, participant, text) ==
    [remoteJid |-> remoteJid, participant |-> participant, fromMe |-> FALSE,
     kind |-> "conversation", text |-> text]

TextKinds == {"conversation", "extendedTextMessage", "imageMessage", "videoMessage",
              "documentMessage"}

\* isJidBroadcast of the library
isJidBroadcast(jid) == endsWith(jid, "@broadcast")

\* const sender = msg.key.participant || jid
SenderOf(msg) == IF msg.participant # "" THEN msg.participant ELSE msg.remoteJid

\* what the loop of handleMessagesUpsert keeps of one message
LogEntry(msg, st, fileBefore) ==
    [msg |-> msg, sent |-> st.sent, calls |-> st.calls, handlers |-> st.handlers,
     before |-> fileBefore, after |-> st.file]

\* the body of the loop for one message: the messages it skips, and the
\* command of the others
ProcessMessage(st, msg) ==
    IF \/ msg.kind = "none"
       \/ msg.fromMe
       \/ isJidBroadcast(msg.remoteJid)
       \/ msg.kind \notin TextKinds
       \/ trim(msg.text) = ""
    THEN st
    ELSE handleCommand(st, msg.remoteJid, SenderOf(msg), trim(msg.text),
                       endsWith(msg.remoteJid, "@g.us"))

Logged(r, msg, fileBefore) == [r EXCEPT !.log = Append(@, LogEntry(msg, r, fileBefore))]

\* one iteration of the loop of handleMessagesUpsert
HandleMessage(st, msg) ==
    Logged(ProcessMessage([st EXCEPT !.sent = <<>>, !.calls = <<>>, !.handlers = <<>>,
                                     !.threw = FALSE], msg),
           msg, st.file)

RECURSIVE HandleMessages(_, _)
HandleMessages(st, messages) ==
    IF messages = <<>> THEN st
    ELSE HandleMessages(HandleMessage(st, Head(messages)), Tail(messages))

\* handleMessagesUpsert(sock, m), m = [type, messages]
handleMessagesUpsert(st, m) ==
    IF m.type # "notify" THEN st ELSE HandleMessages(st, m.messages)

\* handleGroupParticipantsUpdate(sock, update): the welcome when the bot is added
handleGroupParticipantsUpdate(st, update) ==
    IF update.action = "add" /\ update.botAdded
    THEN [Send(st, update.id, "Bot has joined the group!") EXCEPT !.threw = FALSE]
    ELSE st

(***************************************************************************)
(* The connection manager: the 'connection.update' handler of createBot.   *)
(* An update is [connection, error]; error is lastDisconnect?.error:       *)
(* [present, boom, statusCode] (boom: it is a Boom; statusCode: its        *)
(* output.statusCode, named as in the library's DisconnectReason).         *)
(***************************************************************************)
MAX_RETRIES == 5

NoError == [present |-> FALSE, boom |-> FALSE, statusCode |-> "undefined"]

Boom(statusCode) == [present |-> TRUE, boom |-> TRUE, statusCode |-> statusCode]

PlainError == [present |-> TRUE, boom |-> FALSE, statusCode |-> "undefined"]

\* lastDisconnect?.error instanceof Boom
InstanceofBoom(error) == error.present /\ error.boom

\* (v)?.output?.statusCode of a boolean v: a boolean is not nullish and has
\* no property 'output', so the chain yields undefined
OutputStatusCode(v) == IF v \in BOOLEAN THEN "undefined" ELSE v.statusCode

\* const statusCode = (lastDisconnect?.error instanceof Boom)?.output?.statusCode
StatusCode(error) == OutputStatusCode(InstanceofBoom(error))

RECURSIVE Pow2(_)
Pow2(n) == IF n = 0 THEN 1 ELSE 2 * Pow2(n - 1)

Min(a, b) == IF a <= b THEN a ELSE b

\* the delay without its cap
DelayTimeUncapped(retries) == 1000 * Pow2(retries)

\* Math.min(1000 * Math.pow(2, connectionRetries), 30000)
DelayTime(retries) == Min(1000 * Pow2(retries), 30000)

\* the close handler without the test of the counter against MAX_RETRIES
OnCloseUnbounded(retries, error) ==
    [retries |-> retries + 1, branch |-> "reconnect", delayTime |-> DelayTime(retries + 1),
     statusCode |-> StatusCode(error)]

\* the body of the handler for connection === 'close', on the retry counter:
\* the counter it leaves, the branch it takes and the wait before createBot
OnClose(retries, error) ==
    LET statusCode      == StatusCode(error)
        shouldReconnect == statusCode # "loggedOut"
        r0 == IF statusCode = "connectionClosed" THEN 0 ELSE retries
    IN  IF shouldReconnect /\ r0 < MAX_RETRIES
        THEN [retries |-> r0 + 1, branch |-> "reconnect", delayTime |-> DelayTime(r0 + 1),
              statusCode |-> statusCode]
        ELSE IF ~shouldReconnect
        THEN [retries |-> r0, branch |-> "loggedOut", delayTime |-> 0,
              statusCode |-> statusCode]
        ELSE [retries |-> r0, branch |-> "maxRetries", delayTime |-> 0,
              statusCode |-> statusCode]

\* the body of the handler for connection === 'open': presence, then the
\* start-up message and the notification of the admins
OnOpen(st) ==
    IF ~st.net THEN st     \* sock.sendPresenceUpdate throws
    ELSE notifyAdmins(sendStartupMessage(st))

\* a timer callback that sends the reminders that are due
RECURSIVE SendDue(_, _)
SendDue(st, reminders) ==
    IF reminders = <<>> THEN st
    ELSE SendDue(IF Head(reminders).dueAt <= st.now
                 THEN TrySend(st, Head(reminders).jid, Head(reminders).text) ELSE st,
                 Tail(reminders))

KeepAliveDelivers(st) == SendDue(st, st.store)

\* the callback of the keep-alive timer: setInterval(() => { }, 24h)
KeepAliveCallback(st) == st

(***************************************************************************)
(* Bounds of the model.                                                    *)
(***************************************************************************)
\* reminders created in a run
MaxReminders == 1

\* steps of the clock in a run, and the seconds of one step
MaxTicks == 2

TickSeconds == 21600

\* the clock of the initial state: 10:00:30 of day 0
StartClock == 36030

\* promoteAdmin calls that may be in flight at once
MaxCalls == 2

(***************************************************************************)
(* The state.                                                              *)
(***************************************************************************)
VARIABLES
    file,               \* data/admins.json
    store,              \* the pending reminders
    n,                  \* the number of reminders created
    now,                \* the clock, DateTime.now().setZone(TIMEZONE)
    botSocket,          \* bot.js: "null" or "sock"
    alive,              \* the socket of botSocket is open and emits events
    isConnected,        \* bot.js
    connectionRetries,  \* bot.js
    ret,                \* the last call of a function of admin.js and its result
    conn,               \* the last 'connection.update' and what the handler did
    log,                \* the last 'messages.upsert': one entry per message
    out,                \* the last step: its cause and its sendMessage calls
    parses,             \* the last two calls of parseNaturalTime
    pending             \* the promoteAdmin calls in flight, each at one of its awaits

vars == <<file, store, n, now, botSocket, alive, isConnected, connectionRetries,
          ret, conn, log, out, parses, pending>>

\* the contents admins.json may have when the program starts
InitFiles ==
    {File(k, <<>>) : k \in {"missing", "unreadable", "badjson", "noadmins", "ok"}}
    \cup {File("ok", l) : l \in {<<UserA>>, <<UserB, UserA>>, <<UserA, UserA>>,
                                 <<CREATOR_JID, UserB>>}}

NoCall == [op |-> "none", caller |-> "", target |-> "", before |-> File("ok", <<>>),
           threw |-> FALSE, success |-> FALSE, message |-> "", value |-> FALSE,
           admins |-> <<>>, disk |-> TRUE]

NoConn == [connection |-> "none", error |-> NoError, statusCode |-> "undefined",
           branch |-> "none", delayTime |-> 0, createBotCalled |-> FALSE,
           retriesBefore |-> 0, consecutive |-> 0, previousDelay |-> 0]

NoOut == [cause |-> "none", sent |-> <<>>]

\* the promoteAdmin calls that may overlap
CallIds == 1..MaxCalls

\* a promoteAdmin call that has not been made
NoPending == [pc |-> "idle", caller |-> "", target |-> "", admins |-> <<>>,
              success |-> FALSE, message |-> ""]

InitWith(files) ==
    /\ file \in files
    /\ store = <<>>
    /\ n = 0
    /\ now = StartClock
    /\ botSocket = "null"
    /\ alive = FALSE
    /\ isConnected = FALSE
    /\ connectionRetries = 0
    /\ ret = NoCall
    /\ conn = NoConn
    /\ log = <<>>
    /\ out = NoOut
    /\ parses = <<>>
    /\ pending = [i \in CallIds |-> NoPending]

Init == InitWith(InitFiles)

\* the record the handlers work on, for an event in the current state
St(net, disk) ==
    [file |-> file, store |-> store, n |-> n, sent |-> <<>>, calls |-> <<>>,
     handlers |-> <<>>, threw |-> FALSE, log |-> <<>>,
     net |-> net, disk |-> disk, now |-> now]

(***************************************************************************)
(* The inputs.                                                             *)
(***************************************************************************)
\* callers and targets of the functions of admin.js ("" is an absent JID)
Callers == {CREATOR_JID, UserA, ""}

Targets == {UserA, UserB, CREATOR_JID, GroupJid, ""}

\* the texts of the admin commands
AdminTexts ==
    {"!admins", "/admins", "!promote 8801712345678", "/promote 8801911111111",
     "!promote", "!promote +88017", "!Promote 8801316655254",
     "!demote 8801712345678", "/demote 8801911111111", "/demote",
     "!broadcast hello all", "/broadcast"}

\* the natural-language examples of the help message (part_001:476-478)
HelpExamples ==
    {"remind me in 2 hours to call mom",
     "remind me tomorrow 9am drink water",
     "every day at 8pm take medicine"}

\* the fixed commands in their '!' form, with an argument where they take one
BangCommands ==
    {"!ping", "!help", "!start", "!info", "!time", "!admins", "!promote 8801911111111",
     "!demote 8801712345678", "!broadcast hello all", "!addreminder in 30 minutes tea",
     "!myreminders", "!cancelreminder r1"}

\* the '/' form of a command in its '!' form
SlashForm(text) == "/" \o JsSubstring(text, 1)

SlashCommands == {SlashForm(t) : t \in BangCommands}

\* texts with a reminder keyword
KeywordTexts ==
    {"remind me in 2 hours to call mom", "Set an ALARM daily at 7:15 am",
     "my reminder tomorrow 9am"}

\* the fixed commands of handleCommand's comment and help text
FixedCommands == BangCommands \cup SlashCommands \cup KeywordTexts

\* other texts: commands in other letter case or with blanks around, a
\* command without its argument, texts that are no command
OtherTexts == {"!PING", "  !ping  ", "/addreminder", "!unknown", "hello"}

\* who sends: [remoteJid, participant]
AllSenders ==
    {<<CREATOR_JID, "">>, <<UserA, "">>, <<UserB, "">>, <<GroupJid, CREATOR_JID>>,
     <<GroupJid, UserA>>, <<GroupJid, "">>}

\* messages handleMessagesUpsert skips, or whose text is a caption
OddMessages ==
    {[Msg(UserA, "", "!ping") EXCEPT !.kind = "none"],
     [Msg(UserA, "", "!ping") EXCEPT !.fromMe = TRUE],
     Msg("status@broadcast", UserA, "!ping"),
     [Msg(UserA, "", "!ping") EXCEPT !.kind = "stickerMessage"],
     [Msg(UserA, "", "") EXCEPT !.kind = "imageMessage"],
     [Msg(UserA, "", "!time") EXCEPT !.kind = "videoMessage"],
     [Msg(CREATOR_JID, "", "!promote 8801911111111") EXCEPT !.kind = "extendedTextMessage"]}

Notify(messages) == [type |-> "notify", messages |-> messages]

\* the 'messages.upsert' events of the chat: every sender with every admin
\* command, the odd messages, an event that is no notification and an event
\* of two messages
ChatEvents ==
    {Notify(<<Msg(s[1], s[2], t)>>) : s \in AllSenders, t \in AdminTexts}
    \cup {Notify(<<m>>) : m \in OddMessages}
    \cup {[type |-> "append", messages |-> <<Msg(CREATOR_JID, "", "!promote 8801712345678")>>],
          Notify(<<Msg(CREATOR_JID, "", "!promote 8801712345678"), Msg(UserA, "", "!admins")>>)}

\* the admin files the chat starts with
ChatFiles == {File("missing", <<>>), File("ok", <<UserA>>), File("ok", <<UserB, UserA>>)}

\* the 'messages.upsert' events of the dispatcher: every text from an admin
\* in a group, some from the creator
DispatchEvents ==
    {Notify(<<Msg(GroupJid, UserA, t)>>) : t \in FixedCommands \cup HelpExamples \cup OtherTexts}
    \cup {Notify(<<Msg(CREATOR_JID, "", t)>>) :
              t \in {"!myreminders", "/cancelreminder r1", "every day at 8pm take medicine",
                     "/start"}}

\* the 'messages.upsert' events of the bot with the clock
ReminderEvents ==
    {Notify(<<Msg(UserA, "", t)>>) :
         t \in {"remind me in 2 hours to call mom", "!addreminder in 30 minutes tea",
                "!myreminders"}}

\* the 'connection.update' events
Errors == {NoError, PlainError, Boom("loggedOut"), Boom("connectionClosed"),
           Boom("connectionLost"), Boom("restartRequired")}

ConnectionUpdates ==
    {[connection |-> "close", error |-> e] : e \in Errors}
    \cup {[connection |-> c, error |-> NoError] : c \in {"connecting", "open", "undefined"}}

\* the 'connection.update' events of the bot with the clock
SomeUpdates ==
    {[connection |-> c, error |-> NoError] : c \in {"close", "open"}}

\* the texts parseNaturalTime is called with
ParseTexts ==
    HelpExamples \cup
    {"in 30 minutes tea", "Set an ALARM daily at 7:15 am",
     "remind me tomorrow at 12:30 am for tea", "!addreminder 2h Call mom",
     "wake me at 11pm", "alarm"}

(***************************************************************************)
(* The actions.                                                            *)
(***************************************************************************)
\* a field of the record a function returned (absent fields as in NoCall)
Field(r, name) == IF name \in DOMAIN r THEN r[name] ELSE NoCall[name]

\* the function op of admin.js was called and returned r
Returns(op, caller, target, disk, r) ==
    /\ file' = r.file
    /\ ret' = [op |-> op, caller |-> caller, target |-> target, before |-> file,
               threw |-> r.threw, success |-> Field(r, "success"),
               message |-> Field(r, "message"), value |-> Field(r, "value"),
               admins |-> Field(r, "admins"), disk |-> disk]
    /\ UNCHANGED <<store, n, now, botSocket, alive, isConnected, connectionRetries,
                   conn, log, out, parses, pending>>

\* a call of the exported promoteAdmin
PromoteCall(caller, target, disk) ==
    Returns("promoteAdmin", caller, target, disk, promoteAdmin(file, caller, target, disk))

\* a call of the exported demoteAdmin
DemoteCall(caller, target, disk) ==
    Returns("demoteAdmin", caller, target, disk, demoteAdmin(file, caller, target, disk))

\* a call of the exported isAdmin
IsAdminCall(jid, disk) == Returns("isAdmin", "", jid, disk, isAdmin(file, jid, disk))

\* a call of the exported getAdminList
GetAdminListCall(disk) == Returns("getAdminList", "", "", disk, getAdminList(file, disk))

\* a call of the exported initAdminSystem
InitAdminSystemCall(disk) ==
    Returns("initAdminSystem", "", "", disk, initAdminSystem(file, disk))

\* startBot of the start-up script: initAdminSystem, initReminderSystem (a
\* skeleton), then createBot, which throws (and the process exits) when the
\* session or the version cannot be fetched
StartBot(disk, createOk) ==
    /\ botSocket = "null"
    /\ file' = initAdminSystem(file, disk).file
    /\ store' = initReminderSystem(store)
    /\ botSocket' = IF createOk THEN "sock" ELSE "null"
    /\ alive' = createOk
    /\ out' = [cause |-> "startBot", sent |-> <<>>]
    /\ UNCHANGED <<n, now, isConnected, connectionRetries, ret, conn, log, parses, pending>>

\* isBotConnected() of bot.js
isBotConnected == isConnected

\* the close handler without its assignment to isConnected
ConnectionClosedStillConnected(u, c, createOk) ==
    /\ connectionRetries' = c.retries
    /\ alive' = (c.branch = "reconnect" /\ createOk)
    /\ out' = [cause |-> "connection.update", sent |-> <<>>]
    /\ conn' = [connection      |-> u.connection,
                error           |-> u.error,
                statusCode      |-> c.statusCode,
                branch          |-> c.branch,
                delayTime       |-> c.delayTime,
                createBotCalled |-> c.branch = "reconnect",
                retriesBefore   |-> connectionRetries,
                consecutive     |-> IF c.branch = "reconnect" THEN conn.consecutive + 1
                                    ELSE conn.consecutive,
                previousDelay   |-> IF c.branch = "reconnect" THEN conn.delayTime
                                    ELSE conn.previousDelay]
    /\ UNCHANGED <<file, store, n, now, botSocket, isConnected, ret, log, parses, pending>>

\* connection === 'close': c is what the handler did of the retry counter;
\* createBot is called again after c.delayTime when the branch is "reconnect"
ConnectionClosed(u, c, createOk) ==
    /\ isConnected' = FALSE
    /\ connectionRetries' = c.retries
    /\ alive' = (c.branch = "reconnect" /\ createOk)
    /\ out' = [cause |-> "connection.update", sent |-> <<>>]
    /\ conn' = [connection      |-> u.connection,
                error           |-> u.error,
                statusCode      |-> c.statusCode,
                branch          |-> c.branch,
                delayTime       |-> c.delayTime,
                createBotCalled |-> c.branch = "reconnect",
                retriesBefore   |-> connectionRetries,
                consecutive     |-> IF c.branch = "reconnect" THEN conn.consecutive + 1
                                    ELSE conn.consecutive,
                previousDelay   |-> IF c.branch = "reconnect" THEN conn.delayTime
                                    ELSE conn.previousDelay]
    /\ UNCHANGED <<file, store, n, now, botSocket, ret, log, parses, pending>>

\* connection === 'open': o is what the handler sent
ConnectionOpened(u, o) ==
    /\ isConnected' = TRUE
    /\ connectionRetries' = 0
    /\ file' = o.file
    /\ out' = [cause |-> "connection.update", sent |-> o.sent]
    /\ conn' = [NoConn EXCEPT !.connection = u.connection]
    /\ UNCHANGED <<store, n, now, botSocket, alive, ret, log, parses, pending>>

\* the handler of 'connection.update'
ConnectionUpdate(u, net, disk, createOk) ==
    /\ alive
    /\ IF u.connection = "close" THEN ConnectionClosed(u, OnClose(connectionRetries, u.error), createOk)
       ELSE IF u.connection = "open" THEN ConnectionOpened(u, OnOpen(St(net, disk)))
       ELSE /\ out' = [cause |-> "connection.update", sent |-> <<>>]
            /\ conn' = [conn EXCEPT !.connection = u.connection, !.error = u.error,
                                    !.branch = "none", !.createBotCalled = FALSE]
            /\ UNCHANGED <<file, store, n, now, botSocket, alive, isConnected,
                           connectionRetries, ret, log, parses, pending>>

RECURSIVE AllSent(_)
AllSent(entries) ==
    IF entries = <<>> THEN <<>> ELSE Head(entries).sent \o AllSent(Tail(entries))

\* handleMessagesUpsert returned r
Upserted(r) ==
    /\ r.n <= MaxReminders
    /\ file' = r.file
    /\ store' = r.store
    /\ n' = r.n
    /\ log' = r.log
    /\ out' = [cause |-> "messages.upsert", sent |-> AllSent(r.log)]
    /\ UNCHANGED <<now, botSocket, alive, isConnected, connectionRetries, ret, conn, parses, pending>>

\* the handler of 'messages.upsert'
MessagesUpsert(m, net, disk) ==
    /\ alive
    /\ Upserted(handleMessagesUpsert(St(net, disk), m))

\* the handler of 'group-participants.update'
GroupParticipantsUpdate(update, net) ==
    /\ alive
    /\ out' = [cause |-> "group-participants.update",
               sent  |-> handleGroupParticipantsUpdate(St(net, TRUE), update).sent]
    /\ UNCHANGED <<file, store, n, now, botSocket, alive, isConnected,
                   connectionRetries, ret, conn, log, parses, pending>>

\* a call of the exported sendMessage(jid, message)
SendMessageCall(jid, net) ==
    /\ out' = [cause |-> "sendMessage",
               sent |-> IF botSocket = "null" \/ ~isConnected THEN <<>>
                        ELSE <<[to |-> jid, text |-> "message", ok |-> net]>>]
    /\ UNCHANGED <<file, store, n, now, botSocket, alive, isConnected, connectionRetries,
                   ret, conn, log, parses, pending>>

\* time passes; the timers that fall due run: the keep-alive interval of the
\* start-up script is the only timer of the program that has a callback of
\* its own (the reconnect timer calls createBot, see ConnectionClosed)
TimePasses ==
    /\ now < StartClock + MaxTicks * TickSeconds
    /\ now' = now + TickSeconds
    /\ out' = [cause |-> "timer",
               sent |-> KeepAliveCallback([St(TRUE, TRUE) EXCEPT !.now = now']).sent]
    /\ UNCHANGED <<file, store, n, botSocket, alive, isConnected, connectionRetries,
                   ret, conn, log, parses, pending>>

\* parseNaturalTime(text) returned r: the last two calls are kept
Parsed(text, r) ==
    /\ parses' = (IF parses = <<>> THEN <<>> ELSE <<parses[Len(parses)]>>)
                 \o <<[text |-> text, now |-> now, dueAt |-> r.dueAt, message |-> r.message]>>
    /\ UNCHANGED <<file, store, n, now, botSocket, alive, isConnected,
                   connectionRetries, ret, conn, log, out, pending>>

\* a call of parseNaturalTime(text)
ParseCall(text) == Parsed(text, parseNaturalTime(text, now))

\* promoteAdmin is called while other calls are in flight: it returns at a
\* guard or reaches 'await readAdminsFromFile()'
PromoteStart(i, promoterJid, targetJid) ==
    /\ pending[i].pc = "idle"
    /\ pending' = [pending EXCEPT ![i] =
                       [NoPending EXCEPT
                           !.pc = IF PromoteRefusal(promoterJid, targetJid) = ""
                                  THEN "reading" ELSE "returned",
                           !.caller = promoterJid,
                           !.target = targetJid,
                           !.message = PromoteRefusal(promoterJid, targetJid)]]
    /\ UNCHANGED <<file, store, n, now, botSocket, alive, isConnected, connectionRetries,
                   ret, conn, log, out, parses>>

\* the file read r of a call in flight completed
ReadCompleted(i, r) ==
    /\ file' = r.file
    /\ pending' = [pending EXCEPT ![i] = PromoteResumed(pending[i], r)]
    /\ UNCHANGED <<store, n, now, botSocket, alive, isConnected, connectionRetries,
                   ret, conn, log, out, parses>>

\* 'await readAdminsFromFile()' of the call completes
PromoteRead(i, disk) ==
    /\ pending[i].pc = "reading"
    /\ ReadCompleted(i, readAdminsFromFile(file, disk))

\* the file write w of a call in flight completed
WriteCompleted(i, w) ==
    /\ file' = w.file
    /\ pending' = [pending EXCEPT ![i] = PromoteReturned(pending[i], w)]
    /\ UNCHANGED <<store, n, now, botSocket, alive, isConnected, connectionRetries,
                   ret, conn, log, out, parses>>

\* 'await writeAdminsToFile(admins)' of the call completes
PromoteWrite(i, disk) ==
    /\ pending[i].pc = "writing"
    /\ WriteCompleted(i, writeAdminsToFile(file, pending[i].admins, disk))

(***************************************************************************)
(* The specifications.                                                     *)
(***************************************************************************)
\* the admin store under calls of its exported functions
NextAdmin ==
    \/ \E caller \in Callers, target \in Targets, disk \in BOOLEAN :
           PromoteCall(caller, target, disk)
    \/ \E caller \in Callers, target \in Targets, disk \in BOOLEAN :
           DemoteCall(caller, target, disk)
    \/ \E jid \in Targets, disk \in BOOLEAN : IsAdminCall(jid, disk)
    \/ \E disk \in BOOLEAN : GetAdminListCall(disk)
    \/ \E disk \in BOOLEAN : InitAdminSystemCall(disk)

SpecAdmin == Init /\ [][NextAdmin]_vars

\* the connection manager
NextConn ==
    \/ \E disk \in BOOLEAN, createOk \in BOOLEAN : StartBot(disk, createOk)
    \/ \E u \in ConnectionUpdates, net \in BOOLEAN, createOk \in BOOLEAN :
           ConnectionUpdate(u, net, TRUE, createOk)

SpecConn == Init /\ [][NextConn]_vars

\* the chat: the admin commands from every kind of sender
NextChat ==
    \/ StartBot(TRUE, TRUE)
    \/ \E m \in ChatEvents, net \in BOOLEAN, disk \in BOOLEAN : MessagesUpsert(m, net, disk)

SpecChat == InitWith(ChatFiles) /\ [][NextChat]_vars

\* the command dispatcher: every command and keyword
NextDispatch ==
    \/ StartBot(TRUE, TRUE)
    \/ \E m \in DispatchEvents, net \in BOOLEAN : MessagesUpsert(m, net, TRUE)

SpecDispatch == InitWith({File("ok", <<UserA>>)}) /\ [][NextDispatch]_vars

\* the whole bot with the clock: every step that can send a message
NextRemind ==
    \/ StartBot(TRUE, TRUE)
    \/ \E u \in SomeUpdates, net \in BOOLEAN : ConnectionUpdate(u, net, TRUE, TRUE)
    \/ \E m \in ReminderEvents, net \in BOOLEAN : MessagesUpsert(m, net, TRUE)
    \/ \E b \in BOOLEAN :
           GroupParticipantsUpdate([id |-> GroupJid, action |-> "add", botAdded |-> b], TRUE)
    \/ SendMessageCall(UserA, TRUE)
    \/ TimePasses

SpecRemind == InitWith({File("ok", <<UserA>>)}) /\ [][NextRemind]_vars

\* parseNaturalTime under calls at different times
NextParse ==
    \/ \E text \in ParseTexts : ParseCall(text)
    \/ TimePasses

SpecParse == InitWith({File("ok", <<UserA>>)}) /\ [][NextParse]_vars

\* promoteAdmin calls that overlap: a call runs from one await to the next
\* while the others wait at theirs
NextOverlap ==
    \/ \E i \in CallIds, caller \in {CREATOR_JID, UserA}, target \in {UserA, UserB, CREATOR_JID} :
           PromoteStart(i, caller, target)
    \/ \E i \in CallIds, disk \in BOOLEAN : PromoteRead(i, disk)
    \/ \E i \in CallIds, disk \in BOOLEAN : PromoteWrite(i, disk)

SpecOverlap ==
    InitWith({File("missing", <<>>), File("ok", <<>>), File("ok", <<UserA>>)})
        /\ [][NextOverlap]_vars

(***************************************************************************)
(* The properties.                                                         *)
(***************************************************************************)
\* the sender of a message as the specification describes it: the group
\* participant when the message comes from a group, else the chat JID
SenderByChat(msg) ==
    IF endsWith(msg.remoteJid, "@g.us") THEN msg.participant ELSE msg.remoteJid

\* the message is one handleCommand receives
Received(msg) ==
    /\ msg.kind \in TextKinds
    /\ ~msg.fromMe
    /\ ~endsWith(msg.remoteJid, "@broadcast")
    /\ trim(msg.text) # ""

\* the text of the message is a promote or a demote command
PromoteOrDemote(msg) ==
    \E c \in {"!promote", "/promote", "!demote", "/demote"} :
        startsWith(toLowerCase(trim(msg.text)), c)

\* a sendMessage call of the entry went to the chat the message came from
RepliedToChat(e) == \E k \in 1..Len(e.sent) : e.sent[k].to = e.msg.remoteJid

\* C1: a promoteAdmin or demoteAdmin call whose caller is not the creator
\* returns success = false and leaves admins.json as it was.
C1_OnlyCreatorChangesList ==
    (ret.op \in {"promoteAdmin", "demoteAdmin"} /\ ret.caller # CREATOR_JID)
        => (~ret.success /\ ~ret.threw /\ file = ret.before)

\* C1 witness: an admin who is not the creator asked to promote a user and
\* was refused, the file holding a list.
C1_Witness ==
    /\ ret.op = "promoteAdmin"
    /\ ret.caller = UserA
    /\ ret.target = UserB
    /\ ret.before = File("ok", <<UserA>>)
    /\ ret.message = "Only the creator can promote admins"

\* C2: through the chat the stored admin list changes only on a promote or
\* demote message whose sender is the creator; another sender gets the
\* 'restricted to administrators' reply when no admin and the 'Only the
\* creator' reply when an admin, and promoteAdmin/demoteAdmin is not called.
C2_ChatChangesOnlyByCreator ==
    \A i \in 1..Len(log) :
        /\ StoredList(log[i].after) # StoredList(log[i].before)
               => (SenderByChat(log[i].msg) = CREATOR_JID /\ PromoteOrDemote(log[i].msg))
        /\ (Received(log[i].msg) /\ PromoteOrDemote(log[i].msg)
                /\ SenderByChat(log[i].msg) # CREATOR_JID)
               => /\ log[i].sent # <<>>
                  /\ log[i].sent[1].to = log[i].msg.remoteJid
                  /\ log[i].sent[1].text =
                         IF Contains(StoredList(log[i].before), SenderByChat(log[i].msg))
                         THEN "Only the creator can promote/demote administrators."
                         ELSE "Admin commands are restricted to administrators only."
                  /\ \A k \in 1..Len(log[i].calls) :
                         log[i].calls[k] \notin {"promoteAdmin", "demoteAdmin"}

\* C2 witness: an admin of the list, writing in a group, asked to demote
\* and got the 'Only the creator' reply.
C2_Witness ==
    \E i \in 1..Len(log) :
        /\ log[i].msg.remoteJid = GroupJid
        /\ log[i].msg.participant = UserA
        /\ log[i].msg.text = "/demote 8801911111111"
        /\ log[i].before = File("ok", <<UserB, UserA>>)
        /\ log[i].after = log[i].before
        /\ log[i].sent[1].text = "Only the creator can promote/demote administrators."

\* C3: whatever admins.json holds, isAdmin of the creator's JID returns true
\* and isAdmin of an empty JID returns false, neither throwing.
C3_CreatorAlwaysAdmin ==
    /\ \A disk \in BOOLEAN :
           /\ isAdmin(file, CREATOR_JID, disk).value
           /\ ~isAdmin(file, CREATOR_JID, disk).threw
           /\ ~isAdmin(file, "", disk).value
           /\ ~isAdmin(file, "", disk).threw
    /\ (ret.op = "isAdmin" /\ ret.target = CREATOR_JID) => (ret.value /\ ~ret.threw)
    /\ (ret.op = "isAdmin" /\ ret.target = "") => (~ret.value /\ ~ret.threw)

\* C3 witness: isAdmin of the creator returned true on a corrupt file.
C3_Witness ==
    /\ ret.op = "isAdmin"
    /\ ret.target = CREATOR_JID
    /\ ret.before.kind = "badjson"
    /\ ret.value

\* one handler was invoked for the message and a reply went to its chat
OneHandlerAndReply(e) == Len(e.handlers) = 1 /\ RepliedToChat(e)

\* C4 as stated: for every received text that is one of the fixed commands,
\* '/start' among them, exactly one handler is invoked and a reply is sent
\* to the chat.
C4_AsStated ==
    \A i \in 1..Len(log) :
        (Received(log[i].msg) /\ trim(log[i].msg.text) \in FixedCommands)
            => OneHandlerAndReply(log[i])

\* C4, the part the code meets: for every received text that is one of the
\* fixed commands other than '/start', exactly one handler is invoked and a
\* reply is sent to the chat; '/start' invokes no handler and is answered as
\* an unknown command.
C4_EveryCommandButSlashStart ==
    \A i \in 1..Len(log) :
        /\ (Received(log[i].msg) /\ trim(log[i].msg.text) \in FixedCommands \ {"/start"})
               => OneHandlerAndReply(log[i])
        /\ (Received(log[i].msg) /\ trim(log[i].msg.text) = "/start")
               => /\ log[i].handlers = <<>>
                  /\ log[i].sent # <<>>
                  /\ log[i].sent[1] = [to |-> log[i].msg.remoteJid,
                                       text |-> "Unknown command.",
                                       ok |-> log[i].sent[1].ok]

\* C5: every outbound message is sent while the bot handles a connection
\* update, a message upsert or a group-participants update, or by a call of
\* the exported sendMessage; a timer running, with reminders due or not,
\* sends nothing.
C5_RemindersNeverDelivered ==
    /\ out.sent # <<>> => out.cause \in {"connection.update", "messages.upsert",
                                         "group-participants.update", "sendMessage"}
    /\ out.cause = "timer" => out.sent = <<>>

\* C5 witness: the timers ran while a stored reminder was due.
C5_Witness ==
    /\ out.cause = "timer"
    /\ \E i \in 1..Len(store) : store[i].dueAt <= now

\* the waits of the consecutive reconnect attempts, in milliseconds
Backoff == <<2000, 4000, 8000, 16000, 30000>>

\* C6: the n-th consecutive reconnect attempt (n = 1..5) waits
\* min(1000 * 2^n, 30000) ms, that is 2000, 4000, 8000, 16000, 30000: never
\* less than the attempt before it and never more than 30000.
C6_CappedBackoff ==
    conn.createBotCalled
        => /\ conn.consecutive \in 1..5
           /\ conn.delayTime = Backoff[conn.consecutive]
           /\ conn.delayTime >= conn.previousDelay
           /\ conn.delayTime <= 30000

\* C6 witness: the fifth consecutive attempt waited the cap.
C6_Witness ==
    /\ conn.createBotCalled
    /\ conn.consecutive = 5
    /\ conn.previousDelay = 16000
    /\ conn.delayTime = 30000

SameTextSameMessage ==
    \A i, j \in 1..Len(parses) :
        /\ parses[i].text = parses[j].text => parses[i].message = parses[j].message
        /\ (parses[i].text = parses[j].text /\ parses[i].now = parses[j].now)
               => parses[i].dueAt = parses[j].dueAt
        /\ parses[i].dueAt >= parses[i].now

C8_SelfHealing ==
    /\ ret.op \in {"isAdmin", "getAdminList", "initAdminSystem"} => ~ret.threw
    /\ (ret.op = "getAdminList"
            /\ ret.before.kind \in {"missing", "unreadable", "badjson", "noadmins"})
           => ret.admins = <<>>
    /\ (ret.op = "isAdmin" /\ ret.target # CREATOR_JID
            /\ ret.before.kind \in {"missing", "unreadable", "badjson", "noadmins"})
           => ~ret.value
    /\ (ret.op \in {"getAdminList", "initAdminSystem"} /\ ret.before.kind = "missing"
            /\ ret.disk)
           => file = File("ok", <<>>)

\* C8 witness: getAdminList found no file, returned the empty list and left
\* a file with an empty list.
C8_Witness ==
    /\ ret.op = "getAdminList"
    /\ ret.before.kind = "missing"
    /\ ret.admins = <<>>
    /\ ~ret.threw
    /\ file = File("ok", <<>>)

\* C9 as stated: every example of the help message, received as a message,
\* is handled by the natural-language reminder handler, a reminder of the
\* sender is stored and 'Reminder Set' is replied.
C9_AsStated ==
    \A i \in 1..Len(log) :
        (Received(log[i].msg) /\ trim(log[i].msg.text) \in HelpExamples)
            => /\ log[i].handlers = <<"handleNaturalReminder">>
               /\ \E k \in 1..Len(log[i].sent) :
                      /\ log[i].sent[k].to = log[i].msg.remoteJid
                      /\ log[i].sent[k].text = "Reminder Set!"
               /\ \E j \in 1..Len(store) :
                      /\ store[j].jid = log[i].msg.remoteJid
                      /\ store[j].user = SenderByChat(log[i].msg)

\* C10 as stated: a close whose error carries the loggedOut status code takes
\* the 'logged out' branch: createBot is not called again and
\* connectionRetries is not incremented.
C10_AsStated ==
    (conn.connection = "close" /\ conn.error = Boom("loggedOut"))
        => /\ ~conn.createBotCalled
           /\ connectionRetries = conn.retriesBefore
           /\ conn.branch = "loggedOut"

\* the step is a close after which createBot is called again
ReconnectStep == conn' # conn /\ conn'.createBotCalled

\* the counter is within its bound, and so are the attempts since the last
\* 'open'; a close that finds the counter at MAX_RETRIES calls no createBot
\* and leaves no socket behind
RetriesBounded ==
    /\ connectionRetries \in 0..MAX_RETRIES
    /\ conn.consecutive \in 0..MAX_RETRIES
    /\ conn.consecutive = connectionRetries
    /\ (conn.connection = "close" /\ conn.retriesBefore = MAX_RETRIES)
           => (~conn.createBotCalled /\ conn.branch = "maxRetries" /\ ~alive
               /\ connectionRetries = MAX_RETRIES)

\* C11: connectionRetries is always within 0..MAX_RETRIES; at most
\* MAX_RETRIES reconnect attempts are made between two 'open' events; a close
\* that finds connectionRetries at MAX_RETRIES causes no createBot call; and
\* when no 'open' ever arrives the reconnect attempts come to an end.
C11_BoundedReconnection ==
    /\ []RetriesBounded
    /\ [](conn.connection # "open") => <>[][~ReconnectStep]_vars

\* C11 witness: after five attempts a further close found the counter at
\* MAX_RETRIES and gave up.
C11_Witness ==
    /\ conn.connection = "close"
    /\ conn.retriesBefore = MAX_RETRIES
    /\ conn.consecutive = MAX_RETRIES
    /\ conn.branch = "maxRetries"
    /\ ~conn.createBotCalled
    /\ ~alive

\* what isBotConnected() and the counter are after the last update
TracksLastEvent ==
    /\ conn.connection = "open" => (isBotConnected /\ connectionRetries = 0)
    /\ conn.connection = "close" => ~isBotConnected

\* C12: after an 'open' update isBotConnected() is true and
\* connectionRetries is 0; after a 'close' update isBotConnected() is false;
\* and isBotConnected() turns true on an 'open' update only and false on a
\* 'close' update only.
C12_StateTracksLastEvent ==
    /\ []TracksLastEvent
    /\ [][/\ (~isBotConnected /\ isBotConnected') => conn'.connection = "open"
          /\ (isBotConnected /\ ~isBotConnected') => conn'.connection = "close"]_vars

\* C12 witness: an 'open' update was handled, the start-up messages went
\* out, and the bot reports connected with the counter at 0.
C12_Witness ==
    /\ conn.connection = "open"
    /\ out.cause = "connection.update"
    /\ out.sent # <<>>
    /\ isBotConnected
    /\ connectionRetries = 0

\* the last call was promoteAdmin by the creator, of a user JID that is not
\* the creator's and was not in the stored list, with a disk that takes writes
PromotedNewUser(call) ==
    /\ call.op = "promoteAdmin"
    /\ call.caller = CREATOR_JID
    /\ includes(call.target, "@s.whatsapp.net")
    /\ call.target # CREATOR_JID
    /\ ~Contains(StoredList(call.before), call.target)
    /\ call.disk

\* C13: promoteAdmin called by the creator with a target that contains
\* '@s.whatsapp.net', is not the creator and is not in the stored list
\* returns success = true when the disk takes the write, and the stored list
\* afterwards is the list before with the target appended as last element.
C13_PromoteAppends ==
    PromotedNewUser(ret)
        => /\ ret.success
           /\ ~ret.threw
           /\ ret.message = "User promoted to admin successfully"
           /\ file = File("ok", Append(StoredList(ret.before), ret.target))

\* C13 witness: the creator promoted a second user and the list holds the
\* first user, then the second.
C13_Witness ==
    /\ PromotedNewUser(ret)
    /\ ret.target = UserB
    /\ ret.before = File("ok", <<UserA>>)
    /\ ret.success
    /\ file = File("ok", <<UserA, UserB>>)

\* no JID occurs twice in the list
NoDuplicates(list) == \A i, j \in 1..Len(list) : list[i] = list[j] => i = j

\* the stored list has no duplicate and does not hold the creator
CleanList(f) == NoDuplicates(StoredList(f)) /\ ~Contains(StoredList(f), CREATOR_JID)

\* C14: a call of promoteAdmin or demoteAdmin, by any caller and of any
\* target, that starts with a stored list without duplicates and without the
\* creator leaves such a list; so does every sequence of such calls.
C14_ListStaysClean == [][CleanList(file) => CleanList(file')]_vars

\* C14 witness: an earlier call left the list of one user, and the creator
\* promoted a second one: two different users, none of them the creator.
C14_Witness ==
    /\ ret.op = "promoteAdmin"
    /\ ret.success
    /\ ret.target = UserA
    /\ ret.before = File("ok", <<UserB>>)
    /\ file = File("ok", <<UserB, UserA>>)
    /\ CleanList(file)

\* C15: for the creator as caller and a valid target that is not in the
\* stored list, promoteAdmin(target) and then demoteAdmin(target), the disk
\* taking both writes, both return success = true, the stored list is again
\* the list before the two calls, and isAdmin(target) is false.
C15_PromoteThenDemote ==
    [][(/\ PromotedNewUser(ret)
        /\ ret'.op = "demoteAdmin"
        /\ ret'.caller = CREATOR_JID
        /\ ret'.target = ret.target
        /\ ret'.disk)
           => /\ ret.success
              /\ ret'.success
              /\ StoredList(file') = StoredList(ret.before)
              /\ ~isAdmin(file', ret.target, TRUE).value]_vars

\* C15 witness: the creator demoted the user promoted by the call before,
\* and the list is the one before the promotion.
C15_Witness ==
    /\ ret.op = "demoteAdmin"
    /\ ret.caller = CREATOR_JID
    /\ ret.target = UserB
    /\ ret.success
    /\ ret.before = File("ok", <<UserA, UserB>>)
    /\ file = File("ok", <<UserA>>)

\* C16 as stated: when two promoteAdmin calls by the creator for two
\* different valid targets overlap and both return success = true, the
\* stored list afterwards holds both targets.
C16_AsStated ==
    \A i, j \in CallIds :
        (/\ i # j
         /\ pending[i].pc = "returned" /\ pending[i].success
         /\ pending[j].pc = "returned" /\ pending[j].success
         /\ pending[i].caller = CREATOR_JID /\ pending[j].caller = CREATOR_JID
         /\ pending[i].target # pending[j].target)
            => /\ Contains(StoredList(file), pending[i].target)
               /\ Contains(StoredList(file), pending[j].target)

\* what does hold of overlapping calls: a write that succeeds stores the
\* list its call read with the target appended, whatever was written between
LastWriterWins ==
    [][\A i \in CallIds :
          (pending[i].pc = "writing" /\ pending'[i].pc = "returned" /\ pending'[i].success)
              => file' = File("ok", pending[i].admins)]_vars

=============================================================================
